---- MODULE Spec2Model ----
(***************************************************************************)
(* The rate-limited, caching proxy of src/src/server.ts: the module-level  *)
(* gate timestamps, the two stats caches, rateLimitedFetch and the request *)
(* handlers, as a state machine over a millisecond clock.                  *)
(*                                                                         *)
(* Node runs one handler at a time and switches handlers only at an await, *)
(* so one action is the code between two awaits of one handler.            *)
(***************************************************************************)
EXTENDS Integers, FiniteSets, Sequences, TLC

\* ------------------------------------------------------------ bounds
\* Requests of one behaviour; any number of them may be in flight at once.
NumReq == 2
\* Clock advances of one behaviour.
MaxTicks == 2
\* Largest clock value (keeps the arithmetic inside TLC's integers).
MaxClock == 2000000000

\* Largest |req.body.limit| and largest searchData.result.length of SpecLimit.
MaxLimit == 12
MaxResults == 15

\* --------------------------------------------------- program constants
MIN_DELAY == 5000
STATS_CACHE_TTL == 7 * 24 * 60 * 60 * 1000

Reqs == 1..NumReq
StatsKeys == {"poe1", "poe2"}
Games == {"poe1", "poe2"}
RouteClasses == {"poe1stats", "poe2stats", "search", "fetch"}

\* Date.now() at process start: a host with a set clock, where Date.now(), the
\* milliseconds since 1970, exceeds MIN_DELAY (TLC's integers are 32-bit, so
\* the model keeps that property and not the magnitude), and a clock that
\* starts at 0, as under fake timers.
StartTimes == {0, 2 * MIN_DELAY}

\* Steps of the clock between two events.
TimeSteps == {100, STATS_CACHE_TTL}

\* Statuses the upstream answers with; response.ok is status in 200..299.
Statuses == {200, 403, 500}
IsOk(status) == status >= 200 /\ status <= 299

\* An upstream stats document: opaque to the proxy, tagged here with the
\* resource it came from and a version.
Payloads(k) == [key : {k}, ver : {1, 2}]

\* req.body.limit: absent, or a number.
Unset == [set |-> FALSE]
Limit(n) == [set |-> TRUE, val |-> n]
Limits == {Unset, Limit(1)}
\* searchData.result.length
ResultSizes == {0, 2}

\* CacheEntry | null
Null == [null |-> TRUE]
CacheEntry(data, timestamp) == [data |-> data, timestamp |-> timestamp]

\* The request counters (poe1StatsRequestCount, ...) are written by `++` and
\* read by the log lines and the health route only; they are left out.
VARIABLES
  clock,        \* Date.now()
  ticks,        \* clock advances so far
  lastRequest,  \* lastPoe1StatsRequest, lastPoe2StatsRequest, lastSearchRequest, lastFetchRequest
  statsCache,   \* poe1StatsCache, poe2StatsCache
  reqs,         \* per request in flight: the handler's position and locals
  reply,        \* what the upstream delivered to a handler in the latest step
  sent          \* the response sent to a client in the latest step

vars == <<clock, ticks, lastRequest, statsCache, reqs, reply, sent>>

\* The module-level variables under their names in the source.
lastPoe1StatsRequest == lastRequest["poe1stats"]
lastPoe2StatsRequest == lastRequest["poe2stats"]
lastSearchRequest == lastRequest["search"]
lastFetchRequest == lastRequest["fetch"]
poe1StatsCache == statsCache["poe1"]
poe2StatsCache == statsCache["poe2"]

\* ------------------------------------------------------------ requests
\* A response: status, X-Cache header and body, and the route it answers.
NoResponse == [none |-> TRUE]
Response(status, cache, body) == [status |-> status, cache |-> cache, body |-> body]
Sent(r, kind, res) == [req |-> r, kind |-> kind, res |-> res]

\* What a handler's await of the upstream resolved to: the status of the
\* Response of fetch(), the document of response.json(), or a rejection.
NoReply == [none |-> TRUE]
StatusReply(r, status) == [req |-> r, status |-> status]
BodyReply(r, body) == [req |-> r, body |-> body]
Rejection(r) == [req |-> r, threw |-> TRUE]

\* A slot with no handler running.  kind: the route; pc: the await the handler
\* is suspended at; now: the handler's `const now`; rc, entered, seen, ref,
\* wake: the handler's latest rateLimitedFetch call (its route-class, its
\* `now`, the lastRequestRef.value it read, the wrapper object lastRequestRef
\* and the setTimeout deadline); limit, found: the search handler's limit and
\* resultIds.length; calls: the fetch() calls the handler has made.
IdleReq ==
  [kind |-> "none", pc |-> "idle", now |-> 0, rc |-> "none", entered |-> 0,
   seen |-> 0, ref |-> 0, wake |-> 0, limit |-> Unset, found |-> 0, calls |-> 0]

\* A handler that has returned.
DoneReq == [IdleReq EXCEPT !.pc = "done"]

StatsKind(k) == IF k = "poe1" THEN "poe1stats" ELSE "poe2stats"
SearchKind(g) == "search"
KeyOfKind(kind) == IF kind = "poe1stats" THEN "poe1" ELSE "poe2"
StatsKinds == {"poe1stats", "poe2stats"}
SearchKinds == {"search"}
\* The gate timestamp a stats handler hands to rateLimitedFetch.
StatsRoute(k) == IF k = "poe1" THEN "poe1stats" ELSE "poe2stats"

Init ==
  /\ clock \in StartTimes
  /\ ticks = 0
  /\ lastRequest = [rc \in RouteClasses |-> 0]
  /\ statsCache = [k \in StatsKeys |-> Null]
  /\ reqs = [r \in Reqs |-> IdleReq]
  /\ reply = NoReply
  /\ sent = NoResponse

\* ---------------------------------------------------------------- time
\* Time passes: by one of TimeSteps, or up to the deadline of a pending timer.
TimerSteps ==
  {reqs[r].wake - clock : r \in {q \in Reqs : reqs[q].pc = "timer" /\ reqs[q].wake > clock}}

Tick(d) ==
  /\ ticks < MaxTicks
  /\ clock + d <= MaxClock
  /\ clock' = clock + d
  /\ ticks' = ticks + 1
  /\ reply' = NoReply
  /\ sent' = NoResponse
  /\ UNCHANGED <<lastRequest, statsCache, reqs>>

\* A handler returns: its response goes out and its locals are gone.
Return(r, res) ==
  /\ reqs' = [reqs EXCEPT ![r] = DoneReq]
  /\ sent' = Sent(r, reqs[r].kind, res)

\* A step that sends no response.
NoSend == sent' = NoResponse

\* ----------------------------------------------------- rateLimitedFetch
\* waitTime of rateLimitedFetch; 0 stands for the branch that does not wait.
WaitTime(now, lastValue, minDelay) ==
  LET timeSince == now - lastValue
  IN IF timeSince < minDelay THEN minDelay - timeSince ELSE 0

\* lastRequestRef.value = Date.now(); return fetch(url, options): the stamp is
\* written into the object the caller passed, and the call goes out.
StampAndFetch(r, rq) ==
  reqs' = [reqs EXCEPT ![r] = [rq EXCEPT !.pc = "fetch", !.ref = clock, !.calls = @ + 1]]

\* A handler calls rateLimitedFetch(url, options, { value: lastXRequest },
\* MIN_DELAY): the argument is a new object holding a copy of the module-level
\* number.  rq is the handler's record at the call.  The function runs up to
\* its first await: the setTimeout promise, or the promise fetch() returned.
RateLimitedFetch(r, rc, rq) ==
  LET lastRequestRef == lastRequest[rc]
      waitTime == WaitTime(clock, lastRequestRef, MIN_DELAY)
      call == [rq EXCEPT !.rc = rc, !.entered = clock, !.seen = lastRequestRef,
                         !.ref = lastRequestRef, !.wake = 0]
  IN IF waitTime > 0
     THEN reqs' = [reqs EXCEPT ![r] = [call EXCEPT !.pc = "timer", !.wake = clock + waitTime]]
     ELSE StampAndFetch(r, call)

\* Time passes up to the deadline of a pending timer.  Unlike Tick this step is
\* not counted: the pending timers are finitely many, and time does not stop
\* before their deadlines.
TickToTimer ==
  /\ \E d \in TimerSteps : clock + d <= MaxClock /\ clock' = clock + d
  /\ reply' = NoReply
  /\ sent' = NoResponse
  /\ UNCHANGED <<ticks, lastRequest, statsCache, reqs>>

\* Mutant of TimerFires: the promise of the wait is never resolved, the
\* callback runs and the handler stays suspended.
TimerFiresUnresolved(r) ==
  /\ reqs[r].pc = "timer"
  /\ clock >= reqs[r].wake
  /\ reqs' = [reqs EXCEPT ![r].pc = "lost"]
  /\ reply' = NoReply
  /\ NoSend
  /\ UNCHANGED <<clock, ticks, lastRequest, statsCache>>

\* The setTimeout callback runs, no earlier than its deadline.
TimerFires(r) ==
  /\ reqs[r].pc = "timer"
  /\ clock >= reqs[r].wake
  /\ StampAndFetch(r, reqs[r])
  /\ reply' = NoReply
  /\ NoSend
  /\ UNCHANGED <<clock, ticks, lastRequest, statsCache>>

\* Mutant of CanArrive: the gate sleeps without yielding, no handler starts
\* while a request is suspended in it.
CanArriveBlocking(r) ==
  /\ reqs[r].pc = "idle"
  /\ \A q \in 1..(r - 1) : reqs[q].pc # "idle"
  /\ \A q \in Reqs : reqs[q].pc # "timer"

\* A request arrives: the requests are numbered in the order of arrival.
CanArrive(r) ==
  /\ reqs[r].pc = "idle"
  /\ \A q \in 1..(r - 1) : reqs[q].pc # "idle"

\* --------------------------------------------------------- GET /health
\* The handler has no await: it answers in the step of the arrival.
HealthRequest(r) ==
  /\ CanArrive(r)
  /\ reply' = NoReply
  /\ reqs' = [reqs EXCEPT ![r] = DoneReq]
  /\ sent' = Sent(r, "health", Response(200, "NONE", [status |-> "healthy"]))
  /\ UNCHANGED <<clock, ticks, lastRequest, statsCache>>

\* ------------------------------------------------- GET /api/poe(2)/stats
\* Mutant of IsFresh: an entry of age exactly STATS_CACHE_TTL counts as fresh.
IsFreshInclusive(entry, now) == entry # Null /\ (now - entry.timestamp) <= STATS_CACHE_TTL

\* poe1StatsCache && (now - poe1StatsCache.timestamp) < STATS_CACHE_TTL
IsFresh(entry, now) == entry # Null /\ (now - entry.timestamp) < STATS_CACHE_TTL

\* Cache miss: the handler goes on to `await rateLimitedFetch(...)`.
StatsMiss(r, k) ==
  /\ RateLimitedFetch(r, StatsRoute(k), [IdleReq EXCEPT !.kind = StatsKind(k), !.now = clock])
  /\ NoSend

\* Mutant of StatsHit: res.json(cache.data) without the return, so the
\* handler goes on to the upstream call.
StatsHitNoReturn(r, k) ==
  /\ RateLimitedFetch(r, StatsRoute(k), [IdleReq EXCEPT !.kind = StatsKind(k), !.now = clock])
  /\ sent' = Sent(r, StatsKind(k), Response(200, "HIT", statsCache[k].data))

\* Cache hit: X-Cache: HIT, return res.json(cache.data).
StatsHit(r, k) ==
  /\ reqs' = [reqs EXCEPT ![r] = DoneReq]
  /\ sent' = Sent(r, StatsKind(k), Response(200, "HIT", statsCache[k].data))

\* Mutant of StatsRequest: the gate is handed the module-level timestamp
\* itself, so the stamp of a call that does not wait is visible to later calls.
StatsRequestSharedRef(r, k) ==
  /\ CanArrive(r)
  /\ reply' = NoReply
  /\ IF IsFresh(statsCache[k], clock) THEN StatsHit(r, k) ELSE StatsMiss(r, k)
  /\ lastRequest' = IF reqs'[r].pc = "fetch"
                     THEN [lastRequest EXCEPT ![StatsRoute(k)] = clock]
                     ELSE lastRequest
  /\ UNCHANGED <<clock, ticks, statsCache>>

StatsRequest(r, k) ==
  /\ CanArrive(r)
  /\ reply' = NoReply
  /\ IF IsFresh(statsCache[k], clock) THEN StatsHit(r, k) ELSE StatsMiss(r, k)
  /\ UNCHANGED <<clock, ticks, lastRequest, statsCache>>

\* Mutant of StatsErrorResponse: no stale fallback on 403.
StatsErrorResponseNoFallback(status, entry) ==
  Response(status, "NONE", [error |-> status])

\* Mutant of StatsErrorResponse: every upstream failure is reported as 500.
StatsErrorResponseAlways500(status, entry) ==
  IF status = 403 /\ entry # Null
  THEN Response(200, "STALE", entry.data)
  ELSE Response(500, "NONE", [error |-> 500])

\* Mutant of StatsErrorResponse: stale fallback on every failure status.
StatsErrorResponseAnyStale(status, entry) ==
  IF entry # Null
  THEN Response(200, "STALE", entry.data)
  ELSE Response(status, "NONE", [error |-> status])

\* The response of the !response.ok branch.
StatsErrorResponse(status, entry) ==
  IF status = 403 /\ entry # Null
  THEN Response(200, "STALE", entry.data)
  ELSE Response(status, "NONE", [error |-> status])

\* Mutant of StatsCatchResponse: the catch block without the stale fallback.
StatsCatchResponseNoFallback(entry) ==
  Response(500, "NONE", [exception |-> TRUE])

\* The response of the catch block.
StatsCatchResponse(entry) ==
  IF entry # Null
  THEN Response(200, "ERROR-STALE", entry.data)
  ELSE Response(500, "NONE", [exception |-> TRUE])

\* Mutant of StatsFetchReturns: a failure status other than 403 drops the
\* stored entry.
StatsFetchReturnsDrop(r, status) ==
  /\ reqs[r].pc = "fetch"
  /\ reply' = StatusReply(r, status)
  /\ reqs[r].kind \in StatsKinds
  /\ IF IsOk(status)
     THEN reqs' = [reqs EXCEPT ![r].pc = "json"] /\ NoSend
     ELSE Return(r, StatsErrorResponse(status, statsCache[KeyOfKind(reqs[r].kind)]))
  /\ IF ~IsOk(status) /\ status # 403
     THEN statsCache' = [statsCache EXCEPT ![KeyOfKind(reqs[r].kind)] = Null]
     ELSE statsCache' = statsCache
  /\ UNCHANGED <<clock, ticks, lastRequest>>

\* Mutant of StatsFetchReturns: a failure status other than 403 is retried
\* through the gate.
StatsFetchReturnsRetry(r, status) ==
  /\ reqs[r].pc = "fetch"
  /\ reply' = StatusReply(r, status)
  /\ reqs[r].kind \in StatsKinds
  /\ IF IsOk(status)
     THEN reqs' = [reqs EXCEPT ![r].pc = "json"] /\ NoSend
     ELSE IF status = 403
          THEN Return(r, StatsErrorResponse(status, statsCache[KeyOfKind(reqs[r].kind)]))
          ELSE RateLimitedFetch(r, reqs[r].rc, reqs[r]) /\ NoSend
  /\ UNCHANGED <<clock, ticks, lastRequest, statsCache>>

\* Mutant of StatsFetchReturns: a 403 answered from the stored entry also
\* renews the entry's timestamp.
StatsFetchReturnsTouch(r, status) ==
  /\ reqs[r].pc = "fetch"
  /\ reply' = StatusReply(r, status)
  /\ reqs[r].kind \in StatsKinds
  /\ IF IsOk(status)
     THEN reqs' = [reqs EXCEPT ![r].pc = "json"] /\ NoSend
     ELSE Return(r, StatsErrorResponse(status, statsCache[KeyOfKind(reqs[r].kind)]))
  /\ LET k == KeyOfKind(reqs[r].kind)
     IN IF status = 403 /\ statsCache[k] # Null
        THEN statsCache' = [statsCache EXCEPT ![k].timestamp = clock]
        ELSE statsCache' = statsCache
  /\ UNCHANGED <<clock, ticks, lastRequest>>

\* fetch() resolves with a status.
StatsFetchReturns(r, status) ==
  /\ reqs[r].pc = "fetch"
  /\ reply' = StatusReply(r, status)
  /\ reqs[r].kind \in StatsKinds
  /\ IF IsOk(status)
     THEN reqs' = [reqs EXCEPT ![r].pc = "json"] /\ NoSend
     ELSE Return(r, StatsErrorResponse(status, statsCache[KeyOfKind(reqs[r].kind)]))
  /\ UNCHANGED <<clock, ticks, lastRequest, statsCache>>

\* The timestamp of the entry a handler writes: its `const now`.
WriteTimestamp(rq) == rq.now

\* Mutant of StatsJsonReturns: both handlers store into poe1StatsCache.
StatsJsonReturnsOneCache(r, data) ==
  /\ reqs[r].pc = "json"
  /\ reqs[r].kind \in StatsKinds
  /\ data \in Payloads(KeyOfKind(reqs[r].kind))
  /\ reply' = BodyReply(r, data)
  /\ statsCache' = [statsCache EXCEPT !["poe1"] = CacheEntry(data, WriteTimestamp(reqs[r]))]
  /\ Return(r, Response(200, "MISS", data))
  /\ UNCHANGED <<clock, ticks, lastRequest>>

\* Mutant of StatsJsonReturns: the document is stored only if no fresh entry
\* is stored, so the first of two concurrent refreshes wins.
StatsJsonReturnsKeepFresh(r, data) ==
  /\ reqs[r].pc = "json"
  /\ reqs[r].kind \in StatsKinds
  /\ data \in Payloads(KeyOfKind(reqs[r].kind))
  /\ reply' = BodyReply(r, data)
  /\ LET k == KeyOfKind(reqs[r].kind)
     IN IF IsFresh(statsCache[k], clock)
        THEN statsCache' = statsCache
        ELSE statsCache' = [statsCache EXCEPT ![k] = CacheEntry(data, WriteTimestamp(reqs[r]))]
  /\ Return(r, Response(200, "MISS", data))
  /\ UNCHANGED <<clock, ticks, lastRequest>>

\* response.json() resolves with the document: write-through, X-Cache: MISS.
StatsJsonReturns(r, data) ==
  /\ reqs[r].pc = "json"
  /\ reqs[r].kind \in StatsKinds
  /\ data \in Payloads(KeyOfKind(reqs[r].kind))
  /\ reply' = BodyReply(r, data)
  /\ statsCache' = [statsCache EXCEPT ![KeyOfKind(reqs[r].kind)] = CacheEntry(data, WriteTimestamp(reqs[r]))]
  /\ Return(r, Response(200, "MISS", data))
  /\ UNCHANGED <<clock, ticks, lastRequest>>

\* Mutant of StatsThrows: the catch block falls back to the entry of the other
\* key.
StatsThrowsOtherKey(r) ==
  /\ reqs[r].pc \in {"fetch", "json"}
  /\ reply' = Rejection(r)
  /\ reqs[r].kind \in StatsKinds
  /\ Return(r, StatsCatchResponse(statsCache[IF reqs[r].kind = "poe1stats" THEN "poe2" ELSE "poe1"]))
  /\ UNCHANGED <<clock, ticks, lastRequest, statsCache>>

\* Mutant of StatsThrows: the exception is not caught, the handler ends
\* without a response.
StatsThrowsEscapes(r) ==
  /\ reqs[r].pc \in {"fetch", "json"}
  /\ reply' = Rejection(r)
  /\ reqs[r].kind \in StatsKinds
  /\ reqs' = [reqs EXCEPT ![r] = DoneReq]
  /\ NoSend
  /\ UNCHANGED <<clock, ticks, lastRequest, statsCache>>

\* Mutant of StatsThrows: the catch block answers and clears the entry.
StatsThrowsEvict(r) ==
  /\ reqs[r].pc \in {"fetch", "json"}
  /\ reply' = Rejection(r)
  /\ reqs[r].kind \in StatsKinds
  /\ Return(r, StatsCatchResponse(statsCache[KeyOfKind(reqs[r].kind)]))
  /\ statsCache' = [statsCache EXCEPT ![KeyOfKind(reqs[r].kind)] = Null]
  /\ UNCHANGED <<clock, ticks, lastRequest>>

\* fetch() or response.json() rejects: the catch block.
StatsThrows(r) ==
  /\ reqs[r].pc \in {"fetch", "json"}
  /\ reply' = Rejection(r)
  /\ reqs[r].kind \in StatsKinds
  /\ Return(r, StatsCatchResponse(statsCache[KeyOfKind(reqs[r].kind)]))
  /\ UNCHANGED <<clock, ticks, lastRequest, statsCache>>

\* ------------------------------------------------ POST /api/poe(2)/search
Min(a, b) == IF a < b THEN a ELSE b
Max(a, b) == IF a > b THEN a ELSE b

\* Mutant of ActualLimit: Math.min(limit || 10, 10), without the floor of 1.
ActualLimitNoFloor(limit) ==
  LET limitOr10 == IF limit.set /\ limit.val # 0 THEN limit.val ELSE 10
  IN Min(limitOr10, 10)

\* Math.min(Math.max(1, limit || 10), 10)
ActualLimit(limit) ==
  LET limitOr10 == IF limit.set /\ limit.val # 0 THEN limit.val ELSE 10
  IN Min(Max(1, limitOr10), 10)

\* searchData.result with n identifiers: the identifiers in their order.
Result(n) == [i \in 1..n |-> i]

\* Array.prototype.slice(0, end): a negative end counts from the end of the
\* array.
Slice(array, end) ==
  LET len == Len(array)
      final == IF end < 0 THEN Max(len + end, 0) ELSE Min(end, len)
  IN SubSeq(array, 1, final)

\* searchData.result.slice(0, actualLimit).length
ResultIds(n, limit) == Len(Slice(Result(n), ActualLimit(limit)))

\* The body of a search response: the items of the listing.
Items(n) == [items |-> n]

\* Mutant of SearchRequest: the handler without the `if (!query)` check.
SearchRequestNoValidation(r, g, hasQuery, limit) ==
  /\ CanArrive(r)
  /\ reply' = NoReply
  /\ RateLimitedFetch(r, "search", [IdleReq EXCEPT !.kind = SearchKind(g), !.limit = limit])
  /\ NoSend
  /\ UNCHANGED <<clock, ticks, lastRequest, statsCache>>

\* The handler up to its first await: the validation of the body, then the
\* search call.
SearchRequest(r, g, hasQuery, limit) ==
  /\ CanArrive(r)
  /\ reply' = NoReply
  /\ IF ~hasQuery
     THEN /\ reqs' = [reqs EXCEPT ![r] = DoneReq]
          /\ sent' = Sent(r, SearchKind(g), Response(400, "NONE", [invalid |-> TRUE]))
     ELSE /\ RateLimitedFetch(r, "search", [IdleReq EXCEPT !.kind = SearchKind(g), !.limit = limit])
          /\ NoSend
  /\ UNCHANGED <<clock, ticks, lastRequest, statsCache>>

\* The search call's fetch() resolves with a status.
SearchFetchReturns(r, status) ==
  /\ reqs[r].pc = "fetch"
  /\ reply' = StatusReply(r, status)
  /\ reqs[r].kind \in SearchKinds
  /\ reqs[r].rc = "search"
  /\ IF IsOk(status)
     THEN reqs' = [reqs EXCEPT ![r].pc = "json"] /\ NoSend
     ELSE Return(r, Response(status, "NONE", [error |-> status]))
  /\ UNCHANGED <<clock, ticks, lastRequest, statsCache>>

\* Mutant of SearchJsonReturns: the detail call is made without the test
\* `searchData.result.length > 0`.
SearchJsonReturnsAlwaysFetch(r, n) ==
  /\ reqs[r].pc = "json"
  /\ reply' = BodyReply(r, Items(n))
  /\ reqs[r].kind \in SearchKinds
  /\ reqs[r].rc = "search"
  /\ RateLimitedFetch(r, "fetch", [reqs[r] EXCEPT !.found = ResultIds(n, reqs[r].limit)])
  /\ NoSend
  /\ UNCHANGED <<clock, ticks, lastRequest, statsCache>>

\* searchResponse.json() resolves with searchData, n identifiers in result.
SearchJsonReturns(r, n) ==
  /\ reqs[r].pc = "json"
  /\ reply' = BodyReply(r, Items(n))
  /\ reqs[r].kind \in SearchKinds
  /\ reqs[r].rc = "search"
  /\ IF n > 0
     THEN /\ RateLimitedFetch(r, "fetch", [reqs[r] EXCEPT !.found = ResultIds(n, reqs[r].limit)])
          /\ NoSend
     ELSE Return(r, Response(200, "NONE", Items(0)))
  /\ UNCHANGED <<clock, ticks, lastRequest, statsCache>>

\* The detail call's fetch() resolves with a status: a failure status falls
\* through to the final return of the handler.
DetailFetchReturns(r, status) ==
  /\ reqs[r].pc = "fetch"
  /\ reply' = StatusReply(r, status)
  /\ reqs[r].kind \in SearchKinds
  /\ reqs[r].rc = "fetch"
  /\ IF IsOk(status)
     THEN reqs' = [reqs EXCEPT ![r].pc = "json"] /\ NoSend
     ELSE Return(r, Response(200, "NONE", Items(0)))
  /\ UNCHANGED <<clock, ticks, lastRequest, statsCache>>

\* fetchResponse.json() resolves with itemsData: one item per identifier.
DetailJsonReturns(r) ==
  /\ reqs[r].pc = "json"
  /\ reply' = BodyReply(r, Items(reqs[r].found))
  /\ reqs[r].kind \in SearchKinds
  /\ reqs[r].rc = "fetch"
  /\ Return(r, Response(200, "NONE", Items(reqs[r].found)))
  /\ UNCHANGED <<clock, ticks, lastRequest, statsCache>>

\* fetch() or a json() rejects, or the mapping of the items throws: the catch block.
SearchThrows(r) ==
  /\ reqs[r].pc \in {"fetch", "json"}
  /\ reply' = Rejection(r)
  /\ reqs[r].kind \in SearchKinds
  /\ Return(r, Response(500, "NONE", [exception |-> TRUE]))
  /\ UNCHANGED <<clock, ticks, lastRequest, statsCache>>

Next ==
  \/ \E d \in TimeSteps \cup TimerSteps : Tick(d)
  \/ \E r \in Reqs : TimerFires(r)
  \/ \E r \in Reqs, k \in StatsKeys : StatsRequest(r, k)
  \/ \E r \in Reqs, status \in Statuses : StatsFetchReturns(r, status)
  \/ \E r \in Reqs, k \in StatsKeys : \E data \in Payloads(k) : StatsJsonReturns(r, data)
  \/ \E r \in Reqs : StatsThrows(r)
  \/ \E r \in Reqs, g \in Games, hasQuery \in BOOLEAN, limit \in Limits : SearchRequest(r, g, hasQuery, limit)
  \/ \E r \in Reqs, status \in Statuses : SearchFetchReturns(r, status)
  \/ \E r \in Reqs, n \in ResultSizes : SearchJsonReturns(r, n)
  \/ \E r \in Reqs, status \in Statuses : DetailFetchReturns(r, status)
  \/ \E r \in Reqs : DetailJsonReturns(r)
  \/ \E r \in Reqs : SearchThrows(r)
  \/ \E r \in Reqs : HealthRequest(r)

Spec == Init /\ [][Next]_vars

\* The stats handlers alone.  They share no variable with the search handlers
\* but the clock: the timestamps and the caches they read and write are their
\* own.
NextStats ==
  \/ \E d \in TimeSteps \cup TimerSteps : Tick(d)
  \/ \E r \in Reqs : TimerFires(r)
  \/ \E r \in Reqs, k \in StatsKeys : StatsRequest(r, k)
  \/ \E r \in Reqs, status \in Statuses : StatsFetchReturns(r, status)
  \/ \E r \in Reqs, k \in StatsKeys : \E data \in Payloads(k) : StatsJsonReturns(r, data)
  \/ \E r \in Reqs : StatsThrows(r)

SpecStats == Init /\ [][NextStats]_vars

\* The stats handlers from the state a first successful stats request leaves:
\* it arrived at the start time, wrote its document under its `now` and
\* returned; the gate timestamps are as it found them.
InitCached ==
  /\ clock \in StartTimes
  /\ ticks = 0
  /\ lastRequest = [rc \in RouteClasses |-> 0]
  /\ \E k \in StatsKeys : \E data \in Payloads(k) :
       statsCache = [j \in StatsKeys |-> IF j = k THEN CacheEntry(data, clock) ELSE Null]
  /\ reqs = [r \in Reqs |-> IdleReq]
  /\ reply = NoReply
  /\ sent = NoResponse

SpecCached == InitCached /\ [][NextStats]_vars

\* The stats handlers on a host where time passes and the event loop runs
\* every timer callback that is due.
NextStatsFair == NextStats \/ TickToTimer

SpecStatsFair ==
  /\ Init
  /\ [][NextStatsFair]_vars
  /\ WF_vars(TickToTimer)
  /\ \A r \in Reqs : WF_vars(TimerFires(r))

\* The pending upstream call of request r settles: fetch() resolves or
\* rejects, or the json() of the response does.
UpstreamAnswers(r) ==
  \/ \E status \in Statuses : StatsFetchReturns(r, status)
  \/ \E k \in StatsKeys : \E data \in Payloads(k) : StatsJsonReturns(r, data)
  \/ StatsThrows(r)
  \/ \E status \in Statuses : SearchFetchReturns(r, status)
  \/ \E n \in ResultSizes : SearchJsonReturns(r, n)
  \/ \E status \in Statuses : DetailFetchReturns(r, status)
  \/ DetailJsonReturns(r)
  \/ SearchThrows(r)

\* All routes on a host where time passes, the event loop runs every timer
\* callback that is due and every upstream call settles.
NextFair == Next \/ TickToTimer

SpecFair ==
  /\ Init
  /\ [][NextFair]_vars
  /\ WF_vars(TickToTimer)
  /\ \A r \in Reqs : WF_vars(TimerFires(r))
  /\ \A r \in Reqs : WF_vars(UpstreamAnswers(r))

\* The search handlers alone.
NextSearch ==
  \/ \E d \in TimeSteps \cup TimerSteps : Tick(d)
  \/ \E r \in Reqs : TimerFires(r)
  \/ \E r \in Reqs, g \in Games, hasQuery \in BOOLEAN, limit \in Limits : SearchRequest(r, g, hasQuery, limit)
  \/ \E r \in Reqs, status \in Statuses : SearchFetchReturns(r, status)
  \/ \E r \in Reqs, n \in ResultSizes : SearchJsonReturns(r, n)
  \/ \E r \in Reqs, status \in Statuses : DetailFetchReturns(r, status)
  \/ \E r \in Reqs : DetailJsonReturns(r)
  \/ \E r \in Reqs : SearchThrows(r)

SpecSearch == Init /\ [][NextSearch]_vars

\* The search handlers over every limit in -MaxLimit..MaxLimit and every
\* result size up to MaxResults, one request at a time: actualLimit and
\* resultIds depend on the request's own body and search result only.
WideLimits == {Unset} \cup {Limit(v) : v \in (0 - MaxLimit)..MaxLimit}
WideSizes == 0..MaxResults
NoOtherRunning(r) == \A q \in Reqs \ {r} : reqs[q].pc \in {"idle", "done"}

NextLimit ==
  \/ \E d \in TimeSteps \cup TimerSteps : Tick(d)
  \/ \E r \in Reqs : TimerFires(r)
  \/ \E r \in Reqs, g \in Games, limit \in WideLimits :
       NoOtherRunning(r) /\ SearchRequest(r, g, TRUE, limit)
  \/ \E r \in Reqs, status \in Statuses : SearchFetchReturns(r, status)
  \/ \E r \in Reqs, n \in WideSizes : SearchJsonReturns(r, n)
  \/ \E r \in Reqs, status \in Statuses : DetailFetchReturns(r, status)
  \/ \E r \in Reqs : DetailJsonReturns(r)

SpecLimit == Init /\ [][NextLimit]_vars

\* ===================================================================
\* Properties
\* ===================================================================
Abs(x) == IF x < 0 THEN 0 - x ELSE x

\* Request r has passed its gate and its upstream call is pending; the wrapper
\* object then holds the time of the stamp, which is the time of the call.
Dispatched(r) == reqs[r].pc \in {"fetch", "json"}
StampOf(r) == reqs[r].ref
SameRoute(a, b) == a # b /\ Dispatched(a) /\ Dispatched(b) /\ reqs[a].rc = reqs[b].rc

\* An entry exists and its age at time now is STATS_CACHE_TTL or more.
IsStale(entry, now) == entry # Null /\ now - entry.timestamp >= STATS_CACHE_TTL

\* A stats request for key k arrives on slot r in this step.
StatsArrival(r, k) ==
  /\ reqs[r].pc = "idle"
  /\ reqs'[r].pc # "idle"
  /\ \/ reqs'[r].kind = StatsKind(k)
     \/ sent' # NoResponse /\ sent'.req = r /\ sent'.kind = StatsKind(k)

\* The handler of a stats request for key k awaits the Response of fetch().
AwaitsFetch(r, k) == reqs[r].pc = "fetch" /\ reqs[r].kind = StatsKind(k)

\* C1: any two upstream calls on one route-class are dispatched at least
\* MIN_DELAY apart.  Stated of the calls that are pending together, whose
\* stamps the state holds; the claim makes it of every two calls.
C1_MinSpacing ==
  \A a, b \in Reqs :
    SameRoute(a, b) => Abs(StampOf(a) - StampOf(b)) >= MIN_DELAY

\* C2: two requests of one route-class that are in flight at once never both
\* read the same old timestamp and both dispatch less than MIN_DELAY apart.
C2_NoSharedStaleRead ==
  \A a, b \in Reqs :
    (SameRoute(a, b) /\ reqs[a].seen = reqs[b].seen)
      => Abs(StampOf(a) - StampOf(b)) >= MIN_DELAY

\* C3: a request that reaches the gate e < MIN_DELAY after the previous
\* dispatch on its route-class is held back for MIN_DELAY - e (a timer may run
\* late, so: for no less), and one that reaches it later is not held back.
C3_WaitsOutTheRest ==
  \A a, b \in Reqs :
    (SameRoute(a, b) /\ reqs[b].entered >= StampOf(a))
      => LET e == reqs[b].entered - StampOf(a)
         IN IF e < MIN_DELAY
            THEN StampOf(b) - reqs[b].entered >= MIN_DELAY - e
            ELSE StampOf(b) = reqs[b].entered

\* C4: once a request has passed the gate, the module-level timestamp of its
\* route-class holds the time of that stamp (or of a later one), whatever
\* becomes of the upstream call.
C4_StampVisible ==
  \A r \in Reqs : Dispatched(r) => lastRequest[reqs[r].rc] >= StampOf(r)

\* C5: an arriving stats request is answered from the cache, as a hit, exactly
\* when an entry exists and is younger than STATS_CACHE_TTL at the arrival;
\* otherwise it goes to the gate, also when a stale entry is stored.
C5_HitIffFresh ==
  [][\A r \in Reqs, k \in StatsKeys :
       StatsArrival(r, k) =>
         LET e == statsCache[k]
         IN IF e # Null /\ clock - e.timestamp < STATS_CACHE_TTL
            THEN sent' = Sent(r, StatsKind(k), Response(200, "HIT", e.data))
            ELSE sent' = NoResponse /\ reqs'[r].pc \in {"timer", "fetch"}]_vars

\* C5 witness: a request that missed on an entry aged exactly STATS_CACHE_TTL,
\* which is still stored.
C5_Witness ==
  \E r \in Reqs, k \in StatsKeys :
    /\ reqs[r].kind = StatsKind(k)
    /\ reqs[r].pc = "fetch"
    /\ statsCache[k] # Null
    /\ reqs[r].now - statsCache[k].timestamp = STATS_CACHE_TTL

\* C6: a hit returns the entry's data and changes nothing: no handler is left
\* running for the request (no rateLimitedFetch, no upstream call), the gate
\* timestamps and the cache entries are as before.
C6_HitChangesNothing ==
  [][\A r \in Reqs, k \in StatsKeys :
       (StatsArrival(r, k) /\ sent' # NoResponse) =>
         /\ sent'.res = Response(200, "HIT", statsCache[k].data)
         /\ reqs' = [reqs EXCEPT ![r] = DoneReq]
         /\ lastRequest' = lastRequest
         /\ statsCache' = statsCache]_vars

\* C6 witness: a hit has just been answered from the stored entry, by a handler
\* that has returned, with the gate timestamps and the entry in place.
C6_Witness ==
  \E k \in StatsKeys :
    /\ sent # NoResponse
    /\ sent.kind = StatsKind(k)
    /\ sent.res.cache = "HIT"
    /\ statsCache[k] # Null
    /\ sent.res = Response(200, "HIT", statsCache[k].data)
    /\ reqs[sent.req] = DoneReq
    /\ reply = NoReply

\* C7: a miss resolved by a successful upstream call answers with the
\* upstream's document Q, and afterwards the entry holds Q and is fresh.
C7_MissWritesFresh ==
  \A k \in StatsKeys :
    (sent # NoResponse /\ sent.kind = StatsKind(k) /\ sent.res.cache = "MISS")
      => /\ reply = BodyReply(sent.req, sent.res.body)
         /\ statsCache[k] # Null
         /\ statsCache[k].data = sent.res.body
         /\ clock - statsCache[k].timestamp < STATS_CACHE_TTL

\* C8: a 403 from the upstream while a stale entry P is stored is answered
\* with P, status 200, X-Cache: STALE, and the entry stays as it was: same
\* data, same timestamp, still stale.
C8_Stale403 ==
  [][\A r \in Reqs, k \in StatsKeys :
       (AwaitsFetch(r, k) /\ IsStale(statsCache[k], clock) /\ reply' = StatusReply(r, 403)) =>
         /\ sent' = Sent(r, StatsKind(k), Response(200, "STALE", statsCache[k].data))
         /\ statsCache' = statsCache
         /\ IsStale(statsCache'[k], clock')]_vars

\* C8 witness: the answer to a 403, served from a stale entry.
C8_Witness ==
  \E r \in Reqs, k \in StatsKeys :
    /\ reply = StatusReply(r, 403)
    /\ sent = Sent(r, StatsKind(k), Response(200, "STALE", sent.res.body))
    /\ IsStale(statsCache[k], clock)
    /\ statsCache[k].data = sent.res.body

\* C9: with no entry stored for the key when the upstream answers a failure
\* status s (403 included), the response is an error with status s and the
\* cache stays empty.
C9_NoEntryErrorSurfaced ==
  [][\A r \in Reqs, k \in StatsKeys, s \in Statuses :
       (AwaitsFetch(r, k) /\ statsCache[k] = Null /\ s \notin 200..299
          /\ reply' = StatusReply(r, s)) =>
         /\ sent' = Sent(r, StatsKind(k), Response(s, "NONE", [error |-> s]))
         /\ statsCache'[k] = Null]_vars

\* C9 witness: a 403 surfaced as 403, the cache being empty.
C9_Witness ==
  \E r \in Reqs, k \in StatsKeys :
    /\ reply = StatusReply(r, 403)
    /\ sent = Sent(r, StatsKind(k), Response(403, "NONE", [error |-> 403]))
    /\ statsCache[k] = Null

AwaitsUpstream(r, k) == reqs[r].pc \in {"fetch", "json"} /\ reqs[r].kind = StatsKind(k)

\* C11: when the upstream call of a stats request throws (fetch rejects, or
\* the body of a success response does not parse), the response is the stored
\* entry's data, status 200, X-Cache: ERROR-STALE, if an entry is stored for
\* the key, and a failure with status 500 if none is; the cache is unchanged.
C11_ThrowFallsBack ==
  [][\A r \in Reqs, k \in StatsKeys :
       (AwaitsUpstream(r, k) /\ reply' = Rejection(r)) =>
         /\ IF statsCache[k] # Null
            THEN sent' = Sent(r, StatsKind(k), Response(200, "ERROR-STALE", statsCache[k].data))
            ELSE /\ sent' # NoResponse
                 /\ sent'.req = r
                 /\ sent'.res.status = 500
                 /\ sent'.res.cache = "NONE"
         /\ statsCache' = statsCache]_vars

\* C11 witness: a rejection answered with the stored entry, ERROR-STALE.
C11_Witness ==
  \E r \in Reqs, k \in StatsKeys :
    /\ reply = Rejection(r)
    /\ statsCache[k] # Null
    /\ sent = Sent(r, StatsKind(k), Response(200, "ERROR-STALE", statsCache[k].data))

\* C12: a search request without a query is answered 400 in the step of its
\* arrival: the handler has returned without a rateLimitedFetch call (nothing
\* of the request is left pending), and the gate timestamps and the cache
\* entries are as before.
C12_ValidationShortCircuits ==
  [][\A r \in Reqs, g \in Games, limit \in Limits :
       SearchRequest(r, g, FALSE, limit) =>
         /\ sent' # NoResponse
         /\ sent'.req = r
         /\ sent'.res.status = 400
         /\ reqs' = [reqs EXCEPT ![r] = DoneReq]
         /\ lastRequest' = lastRequest
         /\ statsCache' = statsCache]_vars

\* C12 witness: a 400 sent to a search request while a cache entry is stored.
C12_Witness ==
  /\ sent # NoResponse
  /\ sent.kind \in SearchKinds
  /\ sent.res.status = 400
  /\ \E k \in StatsKeys : statsCache[k] # Null

\* The limit of the claim for a requested limit: 10 when it is unset or 0,
\* otherwise the limit clamped to 1..10.
ClaimedLimit(limit) ==
  IF ~limit.set \/ limit.val = 0 THEN 10
  ELSE IF limit.val < 1 THEN 1
  ELSE IF limit.val > 10 THEN 10
  ELSE limit.val

\* C13: when a search returned n > 0 identifiers, the number of identifiers of
\* the detail call is min(n, L), L the claimed limit of the requested limit;
\* it is in 1..10, and the identifiers are the first ones of the result, in
\* order.
C13_DetailCount ==
  \A r \in Reqs, n \in 1..(MaxResults + 1) :
    (reply = BodyReply(r, Items(n)) /\ reqs[r].rc = "fetch") =>
      LET count == reqs[r].found
          L == ClaimedLimit(reqs[r].limit)
      IN /\ count = (IF n < L THEN n ELSE L)
         /\ count >= 1
         /\ count <= 10
         /\ Slice(Result(n), ActualLimit(reqs[r].limit)) = [i \in 1..count |-> Result(n)[i]]

\* C13 witness: 15 identifiers found with the limit unset, 10 of them fetched.
C13_Witness ==
  \E r \in Reqs :
    /\ reply = BodyReply(r, Items(MaxResults))
    /\ reqs[r].rc = "fetch"
    /\ reqs[r].limit = Unset
    /\ reqs[r].found = 10

\* The upstream call that request r awaited has failed in the latest step:
\* fetch() resolved with a failure status, or fetch() or json() rejected.
UpstreamFailed(r) ==
  \/ reply = Rejection(r)
  \/ \E s \in Statuses : ~IsOk(s) /\ reply = StatusReply(r, s)

\* C14: a failure of the search call or of the detail call of a search
\* request, a failure status or an exception, is answered with an error
\* response, never with a success response.  (Stated under SpecSearch, where
\* every request is a search request.)
C14_SearchFailureSurfaced ==
  \A r \in Reqs :
    UpstreamFailed(r) =>
      /\ sent # NoResponse
      /\ sent.req = r
      /\ sent.kind \in SearchKinds
      /\ ~IsOk(sent.res.status)

\* The latest step was a cache write for key k: response.json() resolved and
\* the handler stored the document and answered MISS.
JustWritten(k) ==
  /\ sent # NoResponse
  /\ sent.kind = StatsKind(k)
  /\ sent.res.cache = "MISS"

\* C15: a stats request that arrives right after a cache write of X for its
\* key, no time having passed, is answered as a hit with X, however long the
\* writing request was under way.
C15_ReadAfterWrite ==
  [][\A r \in Reqs, k \in StatsKeys :
       (JustWritten(k) /\ StatsArrival(r, k)) =>
         sent' = Sent(r, StatsKind(k), Response(200, "HIT", sent.res.body))]_vars

\* C16: while the TTL of a key's entry has elapsed, every arriving stats
\* request for the key misses (it goes to the gate), and the entry stays stale
\* over every step that is not a write for the key, failed refreshes included.
C16_StaleUntilWritten ==
  [][\A k \in StatsKeys :
       IsStale(statsCache[k], clock) =>
         /\ \A r \in Reqs :
              StatsArrival(r, k) =>
                sent' = NoResponse /\ reqs'[r].pc \in {"timer", "fetch"}
         /\ (~(sent' # NoResponse /\ sent'.kind = StatsKind(k) /\ sent'.res.cache = "MISS"))
              => IsStale(statsCache'[k], clock')]_vars

\* C16 witness: the second refresh of a stale entry has failed, by an
\* exception, and the entry is still the stale one.
C16_Witness ==
  \E k \in StatsKeys :
    /\ reply = Rejection(NumReq)
    /\ \A q \in Reqs : reqs[q] = DoneReq
    /\ IsStale(statsCache[k], clock)
    /\ sent = Sent(NumReq, StatsKind(k), Response(200, "ERROR-STALE", statsCache[k].data))

\* C17: a cache key that holds an entry holds one after every step: hit,
\* failed refresh, exception, search request, validation error, timer, write.
C17_NeverEvicted ==
  [][\A k \in StatsKeys : statsCache[k] # Null => statsCache'[k] # Null]_vars

\* C17 witness: a refresh has failed by an exception while a fresh entry, written
\* by another request in the meantime, is stored, and the entry is still there.
C17_Witness ==
  \E r \in Reqs, k \in StatsKeys :
    /\ reply = Rejection(r)
    /\ IsFresh(statsCache[k], clock)
    /\ sent = Sent(r, StatsKind(k), Response(200, "ERROR-STALE", statsCache[k].data))

\* The step answers request r's upstream failure: a failure status or an
\* exception.
FailsNow(r) ==
  \/ reply' = Rejection(r)
  \/ \E s \in Statuses : ~IsOk(s) /\ reply' = StatusReply(r, s)

\* C18: the step in which a stats refresh fails (403, another failure status,
\* an exception) leaves every cache entry as it was, data and timestamp; an
\* entry changes only in the step in which response.json() of a success
\* response resolved, and then to that document.
C18_FailureKeepsEntry ==
  [][/\ \A r \in Reqs : FailsNow(r) => statsCache' = statsCache
     /\ \A k \in StatsKeys :
          statsCache'[k] # statsCache[k] =>
            \E r \in Reqs :
              /\ reqs[r].pc = "json"
              /\ reqs[r].kind = StatsKind(k)
              /\ reply' = BodyReply(r, statsCache'[k].data)]_vars

\* C18 witness: a 500 has been surfaced while a fresh entry is stored.
C18_Witness ==
  \E r \in Reqs, k \in StatsKeys :
    /\ reply = StatusReply(r, 500)
    /\ sent = Sent(r, StatsKind(k), Response(500, "NONE", [error |-> 500]))
    /\ IsFresh(statsCache[k], clock)

\* C19: the timestamp stored with an entry is the time of the write.
C19_TimestampIsWriteTime ==
  \A k \in StatsKeys : JustWritten(k) => statsCache[k].timestamp = clock

\* Request q is suspended in the gate, at the setTimeout await.
Suspended(q) == reqs[q].pc = "timer"

\* Request r calls rateLimitedFetch for route-class rc in this step.
EntersGate(r, rc) ==
  /\ reqs[r].pc \in {"idle", "json"}
  /\ reqs'[r].pc \in {"timer", "fetch"}
  /\ reqs'[r].rc = rc

\* Slot r is the one the next arriving request takes.
NextSlot(r) == reqs[r].pc = "idle" /\ \A p \in Reqs : p < r => reqs[p].pc # "idle"

\* While a request is suspended in a gate, every other handler can start and
\* go on: a request of any route can arrive, and a handler waiting for the
\* upstream can take its answer.
OthersCanRun ==
  \A q \in Reqs :
    Suspended(q) =>
      /\ \A r \in Reqs :
           NextSlot(r) =>
             /\ ENABLED HealthRequest(r)
             /\ \A k \in StatsKeys : ENABLED StatsRequest(r, k)
             /\ \A hasQuery \in BOOLEAN : ENABLED SearchRequest(r, "poe1", hasQuery, Unset)
      /\ \A r \in Reqs \ {q} :
           /\ reqs[r].pc = "fetch" =>
                ENABLED (\/ StatsFetchReturns(r, 200)
                         \/ SearchFetchReturns(r, 200)
                         \/ DetailFetchReturns(r, 200))
           /\ reqs[r].pc = "json" =>
                ENABLED (\/ \E k \in StatsKeys : \E data \in Payloads(k) : StatsJsonReturns(r, data)
                         \/ SearchJsonReturns(r, 0)
                         \/ DetailJsonReturns(r))

\* A request that calls rateLimitedFetch while a request of another
\* route-class is suspended waits as its own route-class's timestamp says, and
\* no gate call changes the timestamp of another route-class.
GatesIndependent ==
  \A r \in Reqs, rc \in RouteClasses :
    EntersGate(r, rc) =>
      /\ \A c \in RouteClasses \ {rc} : lastRequest'[c] = lastRequest[c]
      /\ (\E q \in Reqs \ {r} : Suspended(q) /\ reqs[q].rc # rc) =>
           IF clock - lastRequest[rc] < MIN_DELAY
           THEN reqs'[r].pc = "timer" /\ reqs'[r].wake = lastRequest[rc] + MIN_DELAY
           ELSE reqs'[r].pc = "fetch" /\ reqs'[r].ref = clock

\* C20: a request suspended in the gate of one route-class delays no request
\* of another route-class and no request that needs no gate: other handlers
\* start, run and complete meanwhile, and the gate timestamps are independent.
C20_NoCrossDelay == []OthersCanRun /\ [][GatesIndependent]_vars

\* C20 witness: a health check is answered while one request is suspended in
\* the gate of a stats route.
C20_Witness ==
  /\ sent # NoResponse
  /\ sent.kind = "health"
  /\ \E q \in Reqs : Suspended(q) /\ reqs[q].rc \in StatsKinds

\* C21: a request suspended in the gate eventually proceeds to its upstream
\* dispatch, and the wait has no other outcome: the handler leaves the
\* setTimeout await only into the dispatch (no error, no cancellation, no
\* timeout), however many callers wait.
C21_GateProceeds ==
  /\ \A r \in Reqs : (reqs[r].pc = "timer") ~> (reqs[r].pc = "fetch")
  /\ [][\A r \in Reqs :
          (reqs[r].pc = "timer" /\ reqs'[r] # reqs[r]) =>
            reqs'[r] = [reqs[r] EXCEPT !.pc = "fetch", !.ref = clock, !.calls = @ + 1]]_vars

\* C21 witness: every request has waited in the gate of one route-class and
\* has been dispatched.
C21_Witness ==
  \E rc \in RouteClasses :
    \A r \in Reqs :
      /\ reqs[r].pc = "fetch"
      /\ reqs[r].rc = rc
      /\ reqs[r].wake > reqs[r].entered
      /\ StampOf(r) >= reqs[r].wake

C23_DetailAfterSearch ==
  [][\A r \in Reqs :
       /\ (reqs[r].pc = "idle" /\ reqs'[r].kind \in SearchKinds /\ reqs'[r].pc # "done")
            => EntersGate(r, "search")
       /\ (reqs[r].kind \in SearchKinds /\ EntersGate(r, "fetch")) =>
            /\ reqs[r].pc = "json"
            /\ reqs[r].rc = "search"
            /\ \E n \in 1..MaxResults : reply' = BodyReply(r, Items(n))
       /\ (reqs[r].kind \in SearchKinds /\ reqs[r].rc = "search" /\ FailsNow(r)) =>
            /\ reqs'[r] = DoneReq
            /\ sent' # NoResponse
            /\ sent'.req = r
            /\ ~IsOk(sent'.res.status)
       /\ (reqs[r].kind \in SearchKinds /\ reqs[r].rc = "search"
             /\ reply' = BodyReply(r, Items(0))) =>
            /\ reqs'[r] = DoneReq
            /\ sent' = Sent(r, reqs[r].kind, Response(200, "NONE", Items(0)))]_vars

\* C23 witness: the detail call is pending, entered in the step in which the
\* search call delivered two identifiers.
C23_Witness ==
  \E r \in Reqs :
    /\ reqs[r].kind \in SearchKinds
    /\ reqs[r].rc = "fetch"
    /\ reqs[r].pc = "fetch"
    /\ reply = BodyReply(r, Items(2))

\* The fetch() calls of the requests in flight: at most one of a stats
\* request, at most one of a search request before its search call has
\* answered and at most two after.
CallsBounded ==
  \A r \in Reqs :
    /\ reqs[r].kind \in StatsKinds => reqs[r].calls <= 1
    /\ reqs[r].kind \in SearchKinds =>
         reqs[r].calls <= (IF reqs[r].rc = "search" THEN 1 ELSE 2)

\* C24: no request is retried: a stats request makes at most one upstream
\* call and a search request at most two, and the step that answers a failed
\* upstream call ends the handler, which makes no further call.
C24_NoRetry ==
  /\ []CallsBounded
  /\ [][\A r \in Reqs : FailsNow(r) => reqs'[r] = DoneReq]_vars

\* C24 witness: a search request has made its two calls and a stats request
\* its one; both wait for the upstream.
C24_Witness ==
  \E r, q \in Reqs :
    /\ reqs[r].kind \in SearchKinds
    /\ reqs[r].calls = 2
    /\ reqs[r].pc = "json"
    /\ reqs[q].kind \in StatsKinds
    /\ reqs[q].calls = 1
    /\ reqs[q].pc = "json"

\* Request r is being handled: its handler is suspended at an await.
Running(r) == reqs[r].pc \in {"timer", "fetch", "json"}

\* C25: every stats or search request is answered, once: a running handler
\* eventually returns, whatever its upstream calls come to; a response goes
\* to a request exactly in the step in which its handler returns, and a
\* handler that has returned does nothing more.
C25_ExactlyOneResponse ==
  /\ \A r \in Reqs : Running(r) ~> (reqs[r].pc = "done")
  /\ [][\A r \in Reqs :
          /\ (sent' # NoResponse /\ sent'.req = r)
               <=> (reqs[r].pc # "done" /\ reqs'[r].pc = "done")
          /\ reqs[r].pc = "done" => reqs'[r] = reqs[r]]_vars

\* C25 witness: an upstream call of a search request has thrown, and the
\* request is answered 500 by a handler that has returned.
C25_Witness ==
  \E r \in Reqs :
    /\ reply = Rejection(r)
    /\ sent = Sent(r, "search", Response(500, "NONE", [exception |-> TRUE]))
    /\ reqs[r] = DoneReq

\* C26: the module-level gate timestamps hold their initial value 0 in every
\* reachable state.
C26_TimestampsStayZero ==
  /\ lastPoe1StatsRequest = 0
  /\ lastPoe2StatsRequest = 0
  /\ lastSearchRequest = 0
  /\ lastFetchRequest = 0

\* C26 witness: a call has been stamped at a time after 0, and a later call
\* of the same route-class has read 0.
C26_Witness ==
  \E a, b \in Reqs :
    /\ SameRoute(a, b)
    /\ StampOf(a) > 0
    /\ reqs[b].entered >= StampOf(a)
    /\ reqs[b].seen = 0

\* C27: a write never replaces an entry by one with a smaller timestamp.
C27_TimestampMonotone ==
  [][\A k \in StatsKeys :
       (statsCache[k] # Null /\ statsCache'[k] # Null)
         => statsCache'[k].timestamp >= statsCache[k].timestamp]_vars

\* Another request for key k than r is under way.
OtherRefresh(r, k) ==
  \E q \in Reqs \ {r} : Running(q) /\ reqs[q].kind = StatsKind(k)

\* C28: a stats request that finds no fresh entry enters the gate for a call
\* of its own, also while another refresh of the key is under way; every
\* refresh that succeeds stores its document under its own `now`, whatever is
\* stored; and an entry changes in no other step, so the entry left is that of
\* the write that ran last.
C28_NotCoalesced ==
  [][\A r \in Reqs, k \in StatsKeys :
       /\ (StatsArrival(r, k) /\ OtherRefresh(r, k)
             /\ ~(statsCache[k] # Null /\ clock - statsCache[k].timestamp < STATS_CACHE_TTL))
            => /\ sent' = NoResponse
               /\ EntersGate(r, StatsKind(k))
       /\ (reqs[r].pc = "json" /\ reqs[r].kind = StatsKind(k)
             /\ reply' # NoReply /\ reply' # Rejection(r) /\ reply'.req = r)
            => /\ statsCache'[k] = CacheEntry(reply'.body, reqs[r].now)
               /\ sent' = Sent(r, StatsKind(k), Response(200, "MISS", reply'.body))
       /\ (statsCache'[k] # statsCache[k])
            => \E w \in Reqs :
                 /\ reqs[w].pc = "json"
                 /\ reqs[w].kind = StatsKind(k)
                 /\ reqs'[w] = DoneReq
                 /\ statsCache'[k] = CacheEntry(reply'.body, reqs[w].now)]_vars

\* C28 witness: one of two concurrent refreshes of a key has just written, and
\* the other holds its success response and is about to overwrite the entry.
C28_Witness ==
  \E k \in StatsKeys, q \in Reqs :
    /\ JustWritten(k)
    /\ statsCache[k] # Null
    /\ statsCache[k].data = sent.res.body
    /\ q # sent.req
    /\ reqs[q].kind = StatsKind(k)
    /\ reqs[q].pc = "json"

\* Every stored entry holds a document of its own key's upstream.
EntriesOfOwnKey ==
  \A k \in StatsKeys : statsCache[k] # Null => statsCache[k].data \in Payloads(k)

\* A success response to a stats request for key k carries either the
\* document the upstream has just delivered to this request, or the data of
\* the entry stored for k.
ServedFromUpstream ==
  \A k \in StatsKeys :
    (sent' # NoResponse /\ sent'.kind = StatsKind(k) /\ IsOk(sent'.res.status)) =>
      /\ sent'.res.body \in Payloads(k)
      /\ \/ /\ sent'.res.cache = "MISS"
            /\ reply' = BodyReply(sent'.req, sent'.res.body)
         \/ /\ sent'.res.cache \in {"HIT", "STALE", "ERROR-STALE"}
            /\ statsCache[k] # Null
            /\ sent'.res.body = statsCache[k].data

\* An entry changes only into the document the upstream of its key has just
\* delivered.
StoredFromUpstream ==
  \A k \in StatsKeys :
    statsCache'[k] # statsCache[k] =>
      /\ statsCache'[k] # Null
      /\ statsCache'[k].data \in Payloads(k)
      /\ \E r \in Reqs : /\ reqs[r].kind = StatsKind(k)
                         /\ reply' = BodyReply(r, statsCache'[k].data)

\* C29: a success response to a stats request carries a document that the
\* upstream of the same key delivered in a success response, to this request
\* or to an earlier one (the stored entry, which holds nothing else); no
\* document of one key is served for the other, and nothing is served from an
\* empty cache.
C29_PayloadProvenance ==
  []EntriesOfOwnKey /\ [][ServedFromUpstream /\ StoredFromUpstream]_vars

\* C29 witness: a failed PoE request is answered with the stored entry of its
\* own key while an entry of the other key is stored too.
C29_Witness ==
  \E r \in Reqs, k \in StatsKeys :
    /\ reply = Rejection(r)
    /\ \A j \in StatsKeys : statsCache[j] # Null
    /\ sent = Sent(r, StatsKind(k), Response(200, "ERROR-STALE", statsCache[k].data))

\* The key other than k.
OtherKey(k) == IF k = "poe1" THEN "poe2" ELSE "poe1"

\* The step is one of the handler of request r.
Acts(r) == reqs'[r] # reqs[r]

\* The route of request r, during the step that starts it, moves it or ends it.
KindIn(r) ==
  IF reqs[r].kind # "none" THEN reqs[r].kind
  ELSE IF reqs'[r].kind # "none" THEN reqs'[r].kind
  ELSE IF sent' # NoResponse /\ sent'.req = r THEN sent'.kind
  ELSE "none"

\* C30: a step of a stats request for one key leaves the other key's entry
\* and gate timestamp unchanged; a step of a search request leaves both
\* entries unchanged and its response carries no cached data.
C30_KeysIndependent ==
  [][\A r \in Reqs :
       Acts(r) =>
         /\ \A k \in StatsKeys :
              KindIn(r) = StatsKind(k) =>
                /\ statsCache'[OtherKey(k)] = statsCache[OtherKey(k)]
                /\ lastRequest'[StatsRoute(OtherKey(k))] = lastRequest[StatsRoute(OtherKey(k))]
         /\ KindIn(r) \in SearchKinds =>
              /\ statsCache' = statsCache
              /\ (sent' # NoResponse /\ sent'.req = r) =>
                   /\ sent'.res.cache = "NONE"
                   /\ \A k \in StatsKeys : sent'.res.body \notin Payloads(k)]_vars

\* C30 witness: a PoE request has just stored its document while an entry of
\* the other key is stored, untouched.
C30_Witness ==
  \E k \in StatsKeys :
    /\ JustWritten(k)
    /\ statsCache[k] # Null
    /\ statsCache[k].data = sent.res.body
    /\ statsCache[OtherKey(k)] # Null
    /\ statsCache[OtherKey(k)].data \in Payloads(OtherKey(k))

====
